---- MODULE Spec2Model ----
(***************************************************************************)
(* Client-side validation module of the calculator application             *)
(* (src/unnamed/part_002, lines 262-581) and the page handlers that use it *)
(* (src/static/js/validations.examples.js).  The functions of the module   *)
(* are pure operators over JavaScript values, applied by one action each;  *)
(* the input, change and submit listeners are actions on the page.         *)
(*                                                                         *)
(* Strings are sequences of one-character strings.  Numbers are exact      *)
(* rationals n/d in lowest terms; the product and rounding of formatNumber *)
(* are computed as binary64 does.  A call ends in a completion record: a   *)
(* normal return or a thrown TypeError.                                    *)
(***************************************************************************)
EXTENDS Integers, Sequences, FiniteSets, TLC

VARIABLES operationType, inputsString, inputsArray, number, status,
          called, completion,
          classList, innerHTML, className, submitBtn, pc, posted, sent,
          submitListener

\* the arguments: the two raw field values (the values of the elements
\* calcType and calcInputs), an operand array, a number, a field status
args == <<operationType, inputsString, inputsArray, number, status>>

\* the page: the class list of calcInputs, the content of the message and
\* preview containers, the class name of the messages container, the submit
\* button, the invocations of the submit listener that await a promise, the
\* body last posted, the number of requests posted, and the submit listener
\* the page registered
page == <<classList, innerHTML, className, submitBtn, pc, posted, sent,
          submitListener>>

vars == <<operationType, inputsString, inputsArray, number, status,
          called, completion,
          classList, innerHTML, className, submitBtn, pc, posted, sent,
          submitListener>>

-----------------------------------------------------------------------------
(* JavaScript values *)

Null == [t |-> "null", v |-> <<>>]
Undefined == [t |-> "undefined", v |-> <<>>]
Str(s) == [t |-> "string", v |-> s]
Number(x) == [t |-> "number", v |-> x]
Array(xs) == [t |-> "array", v |-> xs]

\* the result of !x for null, undefined, strings and arrays
Falsy(x) == x.t \in {"null", "undefined"} \/ (x.t = "string" /\ x.v = <<>>)

Return(v) == [type |-> "normal", value |-> v]
Throw(e) == [type |-> "throw", value |-> e]

-----------------------------------------------------------------------------
(* Numbers *)

NaN == [k |-> "NaN", n |-> 0, d |-> 1]
PosInfinity == [k |-> "Infinity", n |-> 1, d |-> 1]
NegInfinity == [k |-> "Infinity", n |-> -1, d |-> 1]

Abs(x) == IF x < 0 THEN -x ELSE x

RECURSIVE Gcd(_, _)
Gcd(a, b) == IF b = 0 THEN a ELSE Gcd(b, a % b)

RECURSIVE Pow10(_)
Pow10(e) == IF e = 0 THEN 1 ELSE 10 * Pow10(e - 1)

\* the finite number n/d (d > 0), in lowest terms
Num(n, d) ==
  LET g == Gcd(Abs(n), d)
  IN  [k |-> "num", n |-> n \div g, d |-> d \div g]

Zero == Num(0, 1)

isNaN(x) == x.k = "NaN"
isFinite(x) == x.k = "num"

-----------------------------------------------------------------------------
(* String methods *)

UpperCase == <<"A", "B", "C", "D", "E", "F", "G", "H", "I", "J", "K", "L", "M",
               "N", "O", "P", "Q", "R", "S", "T", "U", "V", "W", "X", "Y", "Z">>
LowerCase == <<"a", "b", "c", "d", "e", "f", "g", "h", "i", "j", "k", "l", "m",
               "n", "o", "p", "q", "r", "s", "t", "u", "v", "w", "x", "y", "z">>

\* the lowercase form of each uppercase letter
ToLower == [i \in DOMAIN UpperCase |-> LowerCase[i]]

UpperIndex == [c \in {UpperCase[i] : i \in DOMAIN UpperCase} |->
                 CHOOSE i \in DOMAIN UpperCase : UpperCase[i] = c]

LowerChar(c) == IF c \in DOMAIN UpperIndex THEN ToLower[UpperIndex[c]] ELSE c

\* x.toLowerCase(): a TypeError when x is null or undefined
toLowerCase(x) ==
  IF x.t = "string"
  THEN Return(Str([i \in DOMAIN x.v |-> LowerChar(x.v[i])]))
  ELSE Throw("TypeError")

\* mutant: x.toLowerCase() without the optional chaining
optToLowerCase_notOptional(x) == toLowerCase(x)

\* x?.toLowerCase(): undefined when x is null or undefined
optToLowerCase(x) ==
  IF x.t \in {"null", "undefined"} THEN Return(Undefined) ELSE toLowerCase(x)

WhiteSpace == {" ", "\t"}

RECURSIVE trimStart(_)
trimStart(s) ==
  IF s # <<>> /\ Head(s) \in WhiteSpace THEN trimStart(Tail(s)) ELSE s

RECURSIVE trimEnd(_)
trimEnd(s) ==
  IF s # <<>> /\ s[Len(s)] \in WhiteSpace
  THEN trimEnd(SubSeq(s, 1, Len(s) - 1))
  ELSE s

trim(s) == trimEnd(trimStart(s))

\* s.split(sep) for a one-character separator
RECURSIVE split(_, _)
split(s, sep) ==
  IF s = <<>> THEN << <<>> >>
  ELSE LET rest == split(Tail(s), sep)
       IN  IF Head(s) = sep THEN << <<>> >> \o rest
           ELSE << <<Head(s)>> \o Head(rest) >> \o Tail(rest)

\* parts.join(sep)
RECURSIVE join(_, _)
join(parts, sep) ==
  IF parts = <<>> THEN <<>>
  ELSE IF Len(parts) = 1 THEN parts[1]
  ELSE parts[1] \o sep \o join(Tail(parts), sep)

-----------------------------------------------------------------------------
(* parseFloat: the longest prefix of the string, after leading white space, *)
(* that is a decimal literal ([+-] digits [. digits] [e [+-] digits], or    *)
(* Infinity); NaN when there is none.                                       *)

Digits == <<"0", "1", "2", "3", "4", "5", "6", "7", "8", "9">>

IsDigit(c) == \E i \in DOMAIN Digits : Digits[i] = c
DigitVal(c) == (CHOOSE i \in DOMAIN Digits : Digits[i] = c) - 1

RECURSIVE digitPrefixLen(_)
digitPrefixLen(s) ==
  IF s # <<>> /\ IsDigit(Head(s)) THEN 1 + digitPrefixLen(Tail(s)) ELSE 0

RECURSIVE DigitsValue(_)
DigitsValue(s) ==
  IF s = <<>> THEN 0
  ELSE 10 * DigitsValue(SubSeq(s, 1, Len(s) - 1)) + DigitVal(s[Len(s)])

InfinityLiteral == <<"I", "n", "f", "i", "n", "i", "t", "y">>

StartsWith(s, p) == Len(s) >= Len(p) /\ SubSeq(s, 1, Len(p)) = p

\* the leading digits of s, and what follows them
digitPrefix(s) == SubSeq(s, 1, digitPrefixLen(s))
afterDigits(s) == SubSeq(s, digitPrefixLen(s) + 1, Len(s))

\* n / 10^fl * 10^e
scale(n, fl, e) ==
  IF e < 0 THEN Num(n, Pow10(fl - e)) ELSE Num(n * Pow10(e), Pow10(fl))

negate(x) ==
  IF x.k = "NaN" THEN x
  ELSE IF x.k = "Infinity" THEN [x EXCEPT !.n = -x.n]
  ELSE Num(-x.n, x.d)

\* the exponent digits (after e and its sign): none means no exponent part
exponentDigits(ed) == DigitsValue(digitPrefix(ed))

\* the value of an exponent part at the head of rest, 0 when there is none
exponentOf(rest) ==
  IF rest = <<>> \/ Head(rest) \notin {"e", "E"} THEN 0
  ELSE IF Tail(rest) # <<>> /\ Head(Tail(rest)) = "-"
       THEN -exponentDigits(Tail(Tail(rest)))
  ELSE IF Tail(rest) # <<>> /\ Head(Tail(rest)) = "+"
       THEN exponentDigits(Tail(Tail(rest)))
  ELSE exponentDigits(Tail(rest))

\* integer digits, fraction digits, and the text after the mantissa
decimalLiteral(intDigits, fracDigits, rest) ==
  IF Len(intDigits) + Len(fracDigits) = 0 THEN NaN
  ELSE scale(DigitsValue(intDigits \o fracDigits), Len(fracDigits),
             exponentOf(rest))

\* the text after the integer digits: an optional fraction, then the rest
withFraction(intDigits, afterInt) ==
  IF afterInt # <<>> /\ Head(afterInt) = "."
  THEN decimalLiteral(intDigits, digitPrefix(Tail(afterInt)),
                      afterDigits(Tail(afterInt)))
  ELSE decimalLiteral(intDigits, <<>>, afterInt)

parseUnsigned(u) ==
  IF StartsWith(u, InfinityLiteral) THEN PosInfinity
  ELSE withFraction(digitPrefix(u), afterDigits(u))

parseSigned(t) ==
  IF t # <<>> /\ Head(t) = "-" THEN negate(parseUnsigned(Tail(t)))
  ELSE IF t # <<>> /\ Head(t) = "+" THEN parseUnsigned(Tail(t))
  ELSE parseUnsigned(t)

parseFloat(s) == parseSigned(trimStart(s))

-----------------------------------------------------------------------------
(* The validation module *)

\* a message: its fixed text, and the text interpolated into it (if any)
Msg(text) == [text |-> text, detail |-> <<>>]
NoMsg == [text |-> "undefined", detail |-> <<>>]

EMPTY_FIELD == Msg("This field is required")
INVALID_NUMBER == Msg("Please enter a valid number")
INVALID_OPERATION == Msg("Please select a valid operation type")
INSUFFICIENT_INPUTS == Msg("At least two numbers are required for a calculation")
DIVISION_BY_ZERO == Msg("Cannot divide by zero")
EMPTY_INPUTS == Msg("Please enter at least two numbers separated by commas")
INVALID_INPUT_FORMAT == Msg("Invalid input format. Please use comma-separated numbers")
NO_VALID_NUMBERS == Msg("No valid numbers found in the input")
OPERATION_REQUIRED == Msg("Operation type is required")

\* `Invalid numbers detected: ${invalidParts.join(', ')}. These will be ignored.`
InvalidNumbersDetected(invalidParts) ==
  [text |-> "Invalid numbers detected: ${}. These will be ignored.",
   detail |-> join(invalidParts, <<",", " ">>)]

addition == <<"a", "d", "d", "i", "t", "i", "o", "n">>
subtraction == <<"s", "u", "b", "t", "r", "a", "c", "t", "i", "o", "n">>
multiplication == <<"m", "u", "l", "t", "i", "p", "l", "i", "c", "a", "t", "i", "o", "n">>
division == <<"d", "i", "v", "i", "s", "i", "o", "n">>

VALID_OPERATION_TYPES ==
  <<Str(addition), Str(subtraction), Str(multiplication), Str(division)>>

includes(array, x) == \E i \in DOMAIN array : array[i] = x

isValidNumber(value) ==
  LET num == parseFloat(value)
  IN  ~isNaN(num) /\ isFinite(num)

\* mutant: the type is matched as given, not lowercased
isValidOperationType_caseSensitive(type) ==
  Return(includes(VALID_OPERATION_TYPES, type))

isValidOperationType(type) ==
  LET lc == optToLowerCase(type)
  IN  IF lc.type = "throw" THEN lc
      ELSE Return(includes(VALID_OPERATION_TYPES, lc.value))

\* inputString.split(','): a TypeError when inputString is null or undefined
splitOnComma(inputString) ==
  IF inputString.t = "string"
  THEN Return(split(inputString.v, ","))
  ELSE Throw("TypeError")

\* .map(s => s.trim()).filter(s => s.length > 0)
trimmedNonEmpty(segments) ==
  SelectSeq([i \in DOMAIN segments |-> trim(segments[i])], LAMBDA p : Len(p) > 0)

\* mutant: the numbers are collected in reverse order (unshift for push)
collectNumbers_reversed(parts) ==
  LET valid == SelectSeq(parts, isValidNumber)
  IN  [i \in DOMAIN valid |-> parseFloat(valid[Len(valid) + 1 - i])]

\* mutant: an invalid part is pushed as 0 instead of being set aside
collectNumbers_coerceZero(parts) ==
  [i \in DOMAIN parts |-> IF isValidNumber(parts[i]) THEN parseFloat(parts[i])
                          ELSE Zero]

\* the numbers array after the forEach: parseFloat of each valid part, in order
collectNumbers(parts) ==
  LET valid == SelectSeq(parts, isValidNumber)
  IN  [i \in DOMAIN valid |-> parseFloat(valid[i])]

\* the invalidParts array after the forEach
collectInvalidParts(parts) == SelectSeq(parts, LAMBDA p : ~isValidNumber(p))

\* a parse result; warning = FALSE stands for the absent property
ParseResult(numbers, isValid, error, warning) ==
  [numbers |-> numbers, isValid |-> isValid, error |-> error, warning |-> warning]

\* mutant: invalid parts leave the parse valid, with the warning flag set
classifyParts_mixedAsValid(parts) ==
  LET numbers == collectNumbers(parts)
      invalidParts == collectInvalidParts(parts)
  IN  IF Len(numbers) = 0
      THEN ParseResult(<<>>, FALSE, INVALID_INPUT_FORMAT, FALSE)
      ELSE IF Len(invalidParts) > 0
      THEN ParseResult(numbers, TRUE, InvalidNumbersDetected(invalidParts), TRUE)
      ELSE ParseResult(numbers, TRUE, NoMsg, FALSE)

\* the outcome of parseInputNumbers once parts is known to be non-empty
classifyParts(parts) ==
  LET numbers == collectNumbers(parts)
      invalidParts == collectInvalidParts(parts)
  IN  IF Len(numbers) = 0
      THEN ParseResult(<<>>, FALSE, INVALID_INPUT_FORMAT, FALSE)
      ELSE IF Len(invalidParts) > 0
      THEN ParseResult(numbers, FALSE, InvalidNumbersDetected(invalidParts), TRUE)
      ELSE ParseResult(numbers, TRUE, NoMsg, FALSE)

\* the guard `!inputString || typeof inputString !== 'string'`
isMissingInput(inputString) == Falsy(inputString) \/ inputString.t # "string"

\* mutant: without the `parts.length === 0` check
parseInputNumbers_noEmptyCheck(inputString) ==
  IF isMissingInput(inputString)
  THEN Return(ParseResult(<<>>, FALSE, EMPTY_INPUTS, FALSE))
  ELSE LET sp == splitOnComma(inputString)
       IN  IF sp.type = "throw" THEN sp
           ELSE Return(classifyParts(trimmedNonEmpty(sp.value)))

parseInputNumbers(inputString) ==
  IF isMissingInput(inputString)
  THEN Return(ParseResult(<<>>, FALSE, EMPTY_INPUTS, FALSE))
  ELSE LET sp == splitOnComma(inputString)
           parts == trimmedNonEmpty(sp.value)
       IN  IF sp.type = "throw" THEN sp
           ELSE IF Len(parts) = 0
           THEN Return(ParseResult(<<>>, FALSE, EMPTY_INPUTS, FALSE))
           ELSE Return(classifyParts(parts))

NullData == [t |-> "null", type |-> <<>>, inputs |-> <<>>]
Data(type, inputs) == [t |-> "object", type |-> type, inputs |-> inputs]

\* result.errors.push(e); result.isValid = false
pushError(result, e) ==
  [result EXCEPT !.errors = Append(@, e), !.isValid = FALSE]

\* result.warnings.push(w)
pushWarning(result, w) == [result EXCEPT !.warnings = Append(@, w)]

\* mutant: slice(0), the first operand is taken as a divisor too
divisors_fromFirst(numbers) == numbers

\* parseResult.numbers.slice(1)
divisors(numbers) == SubSeq(numbers, 2, Len(numbers))

\* mutant: `parseResult.numbers.length < 1`
tooFewNumbers_lessThanOne(numbers) == Len(numbers) < 1

\* `parseResult.numbers.length < 2`
tooFewNumbers(numbers) == Len(numbers) < 2

\* mutant: a missing operation type is reported as an invalid one
checkOperationType_noRequired(result, opType) ==
  LET ok == isValidOperationType(opType)
  IN  IF ok.type = "throw" THEN ok
      ELSE IF ~ok.value THEN Return(pushError(result, INVALID_OPERATION))
      ELSE Return(result)

\* the block `// Validate operation type`
checkOperationType(result, opType) ==
  IF Falsy(opType)
  THEN Return(pushError(result, OPERATION_REQUIRED))
  ELSE LET ok == isValidOperationType(opType)
       IN  IF ok.type = "throw" THEN ok
           ELSE IF ~ok.value THEN Return(pushError(result, INVALID_OPERATION))
           ELSE Return(result)

\* mutant: without the division-by-zero check
checkDivisionByZero_skipped(result, opType, numbers) == Return(result)

\* mutant: a zero divisor is an error whatever the operation
checkDivisionByZero_anyOperation(result, opType, numbers) ==
  IF \E i \in DOMAIN divisors(numbers) : divisors(numbers)[i] = Zero
  THEN Return(pushError(result, DIVISION_BY_ZERO))
  ELSE Return(result)

\* the block `// Check for division by zero`
checkDivisionByZero(result, opType, numbers) ==
  LET lc == optToLowerCase(opType)
  IN  IF lc.type = "throw" THEN lc
      ELSE IF lc.value = Str(division)
              /\ \E i \in DOMAIN divisors(numbers) : divisors(numbers)[i] = Zero
      THEN Return(pushError(result, DIVISION_BY_ZERO))
      ELSE Return(result)

\* mutant: the operation type is stored as given, not lowercased
storeData_keepsCase(result, opType, numbers) ==
  IF result.isValid
  THEN Return([result EXCEPT !.data = Data(opType.v, numbers)])
  ELSE Return(result)

\* the block `// If all validations pass, store the parsed data`
storeData(result, opType, numbers) ==
  IF result.isValid
  THEN LET lc == toLowerCase(opType)
       IN  IF lc.type = "throw" THEN lc
           ELSE Return([result EXCEPT !.data = Data(lc.value.v, numbers)])
  ELSE Return(result)

\* mutant: the operands are checked only while the result is still valid
checkNumbers_shortCircuit(result, opType, parseResult) ==
  IF ~result.isValid THEN Return(result)
  ELSE IF ~parseResult.isValid
  THEN Return(pushError(result, parseResult.error))
  ELSE IF tooFewNumbers(parseResult.numbers)
  THEN Return(pushError(result, INSUFFICIENT_INPUTS))
  ELSE LET r2 == checkDivisionByZero(result, opType, parseResult.numbers)
       IN  IF r2.type = "throw" THEN r2
           ELSE storeData(r2.value, opType, parseResult.numbers)

\* the block `// Parse and validate input numbers`, given the parse result
checkNumbers(result, opType, parseResult) ==
  IF ~parseResult.isValid
  THEN Return(pushError(result, parseResult.error))
  ELSE LET r1 == IF parseResult.warning
                 THEN pushWarning(result, parseResult.error)
                 ELSE result
       IN  IF tooFewNumbers(parseResult.numbers)
           THEN Return(pushError(r1, INSUFFICIENT_INPUTS))
           ELSE LET r2 == checkDivisionByZero(r1, opType, parseResult.numbers)
                IN  IF r2.type = "throw" THEN r2
                    ELSE storeData(r2.value, opType, parseResult.numbers)

validateCalculationInputs(opType, inputs) ==
  LET result == [isValid |-> TRUE, errors |-> <<>>, warnings |-> <<>>,
                 data |-> NullData]
      r1 == checkOperationType(result, opType)
      parseResult == parseInputNumbers(inputs)
  IN  IF r1.type = "throw" THEN r1
      ELSE IF parseResult.type = "throw" THEN parseResult
      ELSE checkNumbers(r1.value, opType, parseResult.value)

\* String(n) for a natural number n
RECURSIVE natToString(_)
natToString(n) ==
  IF n < 10 THEN <<Digits[n + 1]>>
  ELSE natToString(n \div 10) \o <<Digits[(n % 10) + 1]>>

\* `${parseResult.numbers.length} number(s) found. At least 2 are required.`
NumbersFound(n) ==
  [text |-> "${} number(s) found. At least 2 are required.",
   detail |-> natToString(n)]

\* inputElement.value.trim(): a TypeError when the value is null or undefined
trimValue(value) ==
  IF value.t = "string" THEN Return(Str(trim(value.v))) ELSE Throw("TypeError")

\* mutant: the shortfall is reported as an error
reportShortfall_asError(result, numbers) ==
  IF Len(numbers) < 2
  THEN pushError(result, NumbersFound(Len(numbers)))
  ELSE result

\* the block `// Real-time warning for less than 2 numbers`
reportShortfall(result, numbers) ==
  IF Len(numbers) < 2
  THEN pushWarning(result, NumbersFound(Len(numbers)))
  ELSE result

\* mutant: a zero divisor is reported as validateCalculationInputs does
checkField_withZeroCheck(result, parseResult) ==
  IF ~parseResult.isValid
  THEN pushError(result, parseResult.error)
  ELSE IF \E i \in 2..Len(parseResult.numbers) : parseResult.numbers[i] = Zero
       THEN pushError(result, DIVISION_BY_ZERO)
  ELSE reportShortfall(result, parseResult.numbers)

\* mutant: the parser's error is reported as a warning
checkField_errorAsWarning(result, parseResult) ==
  IF ~parseResult.isValid
  THEN pushWarning(result, parseResult.error)
  ELSE reportShortfall(result, parseResult.numbers)

\* the rest of validateInputField, given the parse result of a non-empty value
checkField(result, parseResult) ==
  IF ~parseResult.isValid
  THEN pushError(result, parseResult.error)
  ELSE reportShortfall(IF parseResult.warning
                       THEN pushWarning(result, parseResult.error)
                       ELSE result,
                       parseResult.numbers)

\* mutant: without the `value === ''` early return
validateTrimmed_noEmptyReturn(value) ==
  LET parseResult == parseInputNumbers(value)
  IN  IF parseResult.type = "throw" THEN parseResult
      ELSE Return(checkField([isValid |-> TRUE, errors |-> <<>>, warnings |-> <<>>],
                             parseResult.value))

\* validateInputField from the trimmed value on
validateTrimmed(value) ==
  IF value = Str(<<>>)
  THEN Return([isValid |-> TRUE, errors |-> <<>>, warnings |-> <<>>])
  ELSE LET parseResult == parseInputNumbers(value)
       IN  IF parseResult.type = "throw" THEN parseResult
           ELSE Return(checkField([isValid |-> TRUE, errors |-> <<>>,
                                   warnings |-> <<>>],
                                  parseResult.value))

\* validateInputField(inputElement), given inputElement.value
validateInputField(fieldValue) ==
  LET value == trimValue(fieldValue)
  IN  IF value.type = "throw" THEN value ELSE validateTrimmed(value.value)

-----------------------------------------------------------------------------
(* Arithmetic on numbers: NaN, the infinities, and the finite numbers as exact
   fractions.  The folds of calculateResult are computed exactly; the rounding
   of the binary floating-point format is modelled where formatNumber rounds. *)

\* the sign of a number other than NaN: -1, 0 or 1
sign(x) == IF x.n < 0 THEN -1 ELSE IF x.n > 0 THEN 1 ELSE 0

Infinity(sgn) == IF sgn < 0 THEN NegInfinity ELSE PosInfinity

\* a + b
plus(a, b) ==
  IF a.k = "NaN" \/ b.k = "NaN" THEN NaN
  ELSE IF a.k = "Infinity" /\ b.k = "Infinity"
       THEN IF a.n = b.n THEN a ELSE NaN
  ELSE IF a.k = "Infinity" THEN a
  ELSE IF b.k = "Infinity" THEN b
  ELSE Num(a.n * b.d + b.n * a.d, a.d * b.d)

\* a - b
minus(a, b) == plus(a, negate(b))

\* a * b
times(a, b) ==
  IF a.k = "NaN" \/ b.k = "NaN" THEN NaN
  ELSE IF a.k = "Infinity" \/ b.k = "Infinity"
       THEN IF sign(a) * sign(b) = 0 THEN NaN ELSE Infinity(sign(a) * sign(b))
  ELSE Num((a.n \div Gcd(Abs(a.n), b.d)) * (b.n \div Gcd(Abs(b.n), a.d)),
           (a.d \div Gcd(Abs(b.n), a.d)) * (b.d \div Gcd(Abs(a.n), b.d)))

\* a / b
dividedBy(a, b) ==
  IF a.k = "NaN" \/ b.k = "NaN" THEN NaN
  ELSE IF a.k = "Infinity"
       THEN IF b.k = "Infinity" THEN NaN
            ELSE Infinity(IF sign(b) < 0 THEN -sign(a) ELSE sign(a))
  ELSE IF b.k = "Infinity" THEN Zero
  ELSE IF b.n = 0
       THEN IF a.n = 0 THEN NaN ELSE Infinity(sign(a))
  ELSE Num(a.n * b.d * sign(b), a.d * Abs(b.n))

-----------------------------------------------------------------------------
(* calculateResult *)

CannotDivideByZero ==
  <<"C", "a", "n", "n", "o", "t", " ", "d", "i", "v", "i", "d", "e", " ",
    "b", "y", " ", "z", "e", "r", "o">>

UnknownOperation ==
  <<"U", "n", "k", "n", "o", "w", "n", " ", "o", "p", "e", "r", "a", "t",
    "i", "o", "n">>

ErrorPrefix ==
  <<"E", "r", "r", "o", "r", ":", " ">>

\* mutant: the first element is subtracted too
subtractCallback_fromFirst(a, b, i) == minus(a, b)

\* (a, b, i) => i === 0 ? a : a - b
subtractCallback(a, b, i) == IF i = 0 THEN a ELSE minus(a, b)

\* (a, b, i) => i === 0 ? a : a / b
divideCallback(a, b, i) == IF i = 0 THEN a ELSE dividedBy(a, b)

\* the reducer of each case of the switch
callback(op, a, b, i) ==
  CASE op = addition -> plus(a, b)
    [] op = subtraction -> subtractCallback(a, b, i)
    [] op = multiplication -> times(a, b)
    [] op = division -> divideCallback(a, b, i)

\* array.reduce(callback, initialValue) from index i (counted from 0) on
RECURSIVE reduce(_, _, _, _)
reduce(op, array, i, acc) ==
  IF i >= Len(array) THEN acc
  ELSE reduce(op, array, i + 1, callback(op, acc, array[i + 1], i))

\* mutant: the first operand is tested too
someZeroDivisor_anyIndex(array) ==
  \E index \in 0..(Len(array) - 1) : array[index + 1] = Zero

\* inputs.some((value, index) => index > 0 && value === 0)
someZeroDivisor(array) ==
  \E index \in 0..(Len(array) - 1) : index > 0 /\ array[index + 1] = Zero

\* case 'division'
divide(array) ==
  IF someZeroDivisor(array) THEN Str(CannotDivideByZero)
  ELSE Number(reduce(division, array, 0, array[1]))

\* the switch on type?.toLowerCase()
switchOperation(op, array) ==
  CASE op = Str(addition) -> Number(reduce(addition, array, 0, Zero))
    [] op = Str(subtraction) -> Number(reduce(subtraction, array, 0, array[1]))
    [] op = Str(multiplication) -> Number(reduce(multiplication, array, 0, Num(1, 1)))
    [] op = Str(division) -> divide(array)
    [] OTHER -> Str(UnknownOperation)

\* mutant: `inputs.length < 1`
missingOperands_lessThanOne(inputs) == Falsy(inputs) \/ Len(inputs.v) < 1

\* `!inputs || inputs.length < 2`
missingOperands(inputs) == Falsy(inputs) \/ Len(inputs.v) < 2

\* calculateResult(type, inputs); a fault inside the try block is caught and
\* returned as `Error: ${error.message}` (the message is kept as the error's name)
calculateResult(type, inputs) ==
  IF missingOperands(inputs) THEN Return(Null)
  ELSE LET op == optToLowerCase(type)
       IN  IF op.type = "throw" THEN Return(Str(ErrorPrefix \o <<op.value>>))
           ELSE Return(switchOperation(op.value, inputs.v))

-----------------------------------------------------------------------------
(* getOperatorSymbol *)

constructor == <<"c", "o", "n", "s", "t", "r", "u", "c", "t", "o", "r">>
proto == <<"_", "_", "p", "r", "o", "t", "o", "_", "_">>

\* the function Object, and the object Object.prototype
ObjectConstructor == [t |-> "function", v |-> <<"O", "b", "j", "e", "c", "t">>]
ObjectPrototype == [t |-> "object", v |-> <<>>]

\* the own properties of the object literal `symbols`
ownSymbol(key) ==
  CASE key = addition -> Str(<<"+">>)
    [] key = subtraction -> Str(<<"-">>)
    [] key = multiplication -> Str(<<"×">>)
    [] key = division -> Str(<<"÷">>)
    [] OTHER -> Undefined

\* the properties `symbols` inherits from Object.prototype that a lowercased
\* key can name
inheritedSymbol(key) ==
  CASE key = constructor -> ObjectConstructor
    [] key = proto -> ObjectPrototype
    [] OTHER -> Undefined

\* the property key of a value: String(key)
propertyKey(key) ==
  IF key.t = "string" THEN key.v
  ELSE IF key.t = "null" THEN <<"n", "u", "l", "l">>
  ELSE <<"u", "n", "d", "e", "f", "i", "n", "e", "d">>

\* symbols[key]: own properties first, then the prototype chain
lookupSymbol(key) ==
  LET own == ownSymbol(propertyKey(key))
  IN  IF own # Undefined THEN own ELSE inheritedSymbol(propertyKey(key))

\* getOperatorSymbol(type): symbols[type?.toLowerCase()] || '?'
getOperatorSymbol(type) ==
  LET key == optToLowerCase(type)
  IN  IF key.type = "throw" THEN key
      ELSE LET found == lookupSymbol(key.value)
           IN  Return(IF Falsy(found) THEN Str(<<"?">>) ELSE found)

-----------------------------------------------------------------------------
(* formatNumber *)

\* String(x) for null, undefined and strings
toString(x) == Str(propertyKey(x))

\* Math.abs(x)
abs(x) ==
  IF x.k = "NaN" THEN x
  ELSE IF x.k = "Infinity" THEN PosInfinity
  ELSE Num(Abs(x.n), x.d)

\* a < b
lessThan(a, b) ==
  IF a.k = "NaN" \/ b.k = "NaN" THEN FALSE
  ELSE IF a.k = "Infinity" THEN a.n < 0 /\ b # a
  ELSE IF b.k = "Infinity" THEN b.n > 0
  ELSE a.n * (b.d \div Gcd(a.d, b.d)) < b.n * (a.d \div Gcd(a.d, b.d))

\* The product num * 10000 is computed in binary64: a finite number n/d
\* stands for the double nearest to it, 53 significant bits (first bit 1,
\* most significant first) and a binary exponent:
\* bits * 2^(exp - 52), between 2^exp and 2^(exp + 1).
Precision == 53

Last(s) == s[Len(s)]

\* the largest e >= 0 with 2^e <= a/d, for a/d >= 1
RECURSIVE log2Up(_, _, _)
log2Up(a, d, e) == IF d * 2^(e + 1) <= a THEN log2Up(a, d, e + 1) ELSE e

\* the largest e < 0 with 2^e <= a/d, for 0 < a/d < 1, searched from -k down
RECURSIVE log2Down(_, _, _)
log2Down(a, d, k) == IF a * 2^k >= d THEN -k ELSE log2Down(a, d, k + 1)

\* the binary exponent of a/d > 0
binaryExponent(a, d) == IF a >= d THEN log2Up(a, d, 0) ELSE log2Down(a, d, 1)

\* the 4 bits of a hexadecimal digit, and of each digit of a sequence
HexBits(h) == <<h \div 8, (h \div 4) % 2, (h \div 2) % 2, h % 2>>
expand(digits) ==
  [i \in 1..(4 * Len(digits)) |-> HexBits(digits[(i + 3) \div 4])[((i - 1) % 4) + 1]]

\* the hexadecimal digits of a sequence of bits, 4 bits a digit
group(bits) ==
  [j \in 1..(Len(bits) \div 4) |->
     8 * bits[4 * j - 3] + 4 * bits[4 * j - 2] + 2 * bits[4 * j - 1] + bits[4 * j]]

\* one more hexadecimal digit of a long division by d:
\* <<digits so far, remainder>>
nextHex(qr, d) == <<Append(qr[1], (16 * qr[2]) \div d), (16 * qr[2]) % d>>

\* the first `count` hexadecimal digits of rem/d < 1, and the remainder
RECURSIVE quotientHex(_, _, _)
quotientHex(rem, d, count) ==
  IF count = 0 THEN <<<<>>, rem>>
  ELSE nextHex(quotientHex(rem, d, count - 1), d)

\* the first Precision bits of r/d (1 <= r/d < 2), and the remainder
quotientBits(r, d) ==
  <<<<1>> \o expand(quotientHex(r - d, d, (Precision - 1) \div 4)[1]),
    quotientHex(r - d, d, (Precision - 1) \div 4)[2]>>

\* bits + 1 in the same number of bits, for bits that are not all 1
increment(bits) ==
  LET last0 == CHOOSE i \in DOMAIN bits :
                 bits[i] = 0 /\ \A k \in (i + 1)..Len(bits) : bits[k] = 1
  IN  [i \in DOMAIN bits |-> IF i < last0 THEN bits[i]
                             ELSE IF i = last0 THEN 1 ELSE 0]

\* the double of the bits, rounded up by one unit in the last place or not
rounded(bits, exp, up) ==
  IF ~up THEN [bits |-> bits, exp |-> exp]
  ELSE IF \A i \in DOMAIN bits : bits[i] = 1
       THEN [bits |-> [i \in DOMAIN bits |-> IF i = 1 THEN 1 ELSE 0],
             exp |-> exp + 1]
  ELSE [bits |-> increment(bits), exp |-> exp]

\* round to nearest, a tie going to the even: what is left of the division
\* is more than half a unit in the last place, or half of it and the last
\* bit is 1
remainderRoundsUp(br, d) ==
  2 * br[2] > d \/ (2 * br[2] = d /\ Last(br[1]) = 1)

roundedQuotient(br, d, e) == rounded(br[1], e, remainderRoundsUp(br, d))

\* the double nearest to a/d > 0 whose binary exponent is e
toDoubleAt(a, d, e) ==
  IF e < 0 THEN roundedQuotient(quotientBits(a * 2^(-e), d), d, e)
  ELSE roundedQuotient(quotientBits(a, d * 2^e), d * 2^e, e)

\* the double nearest to a/d > 0
toDouble(a, d) == toDoubleAt(a, d, binaryExponent(a, d))

\* the bits of a natural number, none for 0
RECURSIVE binary(_)
binary(n) == IF n = 0 THEN <<>> ELSE binary(n \div 2) \o <<n % 2>>

\* digits[1..i] * c + carry in hexadecimal, for a small integer c: what is
\* carried out of the first digit, then the digits
RECURSIVE timesHex(_, _, _, _)
timesHex(digits, c, i, carry) ==
  IF i = 0 THEN <<carry>>
  ELSE timesHex(digits, c, i - 1, (digits[i] * c + carry) \div 16)
         \o <<(digits[i] * c + carry) % 16>>

\* the bits of bits * c, the first bit of bits being 1
timesBits(bits, c) ==
  binary(c + timesHex(group(Tail(bits)), c, (Precision - 1) \div 4, 0)[1])
    \o expand(Tail(timesHex(group(Tail(bits)), c, (Precision - 1) \div 4, 0)))

\* round to nearest, a tie going to the even: the bits cut off are more than
\* half a unit in the last place, or half of it and the last bit is 1
restRoundsUp(rest, lastBit) ==
  /\ rest # <<>>
  /\ rest[1] = 1
  /\ (lastBit = 1 \/ \E i \in 2..Len(rest) : rest[i] = 1)

\* the exact product p, of exponent exp + Len(p) - Precision, as a double
roundedProduct(p, exp) ==
  rounded(SubSeq(p, 1, Precision), exp + Len(p) - Precision,
          restRoundsUp(SubSeq(p, Precision + 1, Len(p)), p[Precision]))

\* y * c in binary64, for a double y > 0 and a small integer c >= 1
timesDouble(y, c) == roundedProduct(timesBits(y.bits, c), y.exp)

\* the integer the bits stand for
RECURSIVE bitsValue(_)
bitsValue(bits) ==
  IF bits = <<>> THEN 0
  ELSE IF Len(bits) = 1 THEN bits[1]
  ELSE bitsValue(SubSeq(bits, 1, Len(bits) \div 2))
         * 2^(Len(bits) - Len(bits) \div 2)
       + bitsValue(SubSeq(bits, Len(bits) \div 2 + 1, Len(bits)))

\* the integer part of a double y > 0 (below 2^31)
integerPart(y) ==
  IF y.exp < 0 THEN 0 ELSE bitsValue(SubSeq(y.bits, 1, y.exp + 1))

\* the bits of y after the binary point, from the one that stands for 1/2
fractionBits(y) ==
  IF y.exp < -1 THEN <<0>> \o y.bits
  ELSE SubSeq(y.bits, y.exp + 2, Precision)

\* y or -y is exactly halfway between two integers, or nearer to the one
\* away from 0
halfOrMore(y) == fractionBits(y) # <<>> /\ fractionBits(y)[1] = 1
moreThanHalf(y) ==
  halfOrMore(y) /\ \E i \in 2..Len(fractionBits(y)) : fractionBits(y)[i] = 1

\* mutant: the fraction is cut off
mathRound_truncated(negative, y) ==
  Num((IF negative THEN -1 ELSE 1) * integerPart(y), 1)

\* Math.round of the double y (negative: of -y): the nearest integer, a tie
\* going up
mathRound(negative, y) ==
  IF negative
  THEN Num(-(integerPart(y) + IF moreThanHalf(y) THEN 1 ELSE 0), 1)
  ELSE Num(integerPart(y) + IF halfOrMore(y) THEN 1 ELSE 0, 1)

\* the largest e >= 0 with 10^e <= a/d, for a/d >= 1
RECURSIVE exponentUp(_, _, _)
exponentUp(a, d, e) ==
  IF d * Pow10(e + 1) <= a THEN exponentUp(a, d, e + 1) ELSE e

\* the largest e < 0 with 10^e <= a/d, for 0 < a/d < 1, searched from -k down
RECURSIVE exponentDown(_, _, _)
exponentDown(a, d, k) ==
  IF a * Pow10(k) >= d THEN -k ELSE exponentDown(a, d, k + 1)

\* the decimal exponent of a/d > 0
exponent10(a, d) ==
  IF a >= d THEN exponentUp(a, d, 0) ELSE exponentDown(a, d, 1)

\* one more digit of a long division by d: <<quotient so far, remainder>>
nextDigit(qr, d) == <<qr[1] * 10 + (qr[2] * 10) \div d, (qr[2] * 10) % d>>

\* the first digit and `digits` more of r/d (1 <= r/d < 10), and the remainder
RECURSIVE longDivision(_, _, _)
longDivision(r, d, digits) ==
  IF digits = 0 THEN <<r \div d, r % d>>
  ELSE nextDigit(longDivision(r, d, digits - 1), d)

\* the digits rounded to nearest, a tie going to the larger
roundDigits(qr, d) == IF 2 * qr[2] >= d THEN qr[1] + 1 ELSE qr[1]

\* the f + 1 significant digits n of a/d > 0 whose decimal exponent is e
significand(a, d, e, f) ==
  IF e < 0 THEN roundDigits(longDivision(a * Pow10(-e), d, f), d)
  ELSE roundDigits(longDivision(a, d * Pow10(e), f), d * Pow10(e))

\* the text d.ddd...e(+|-)x of n (f + 1 digits) times 10^(e - f)
exponentialText(negative, n, e, f) ==
  (IF negative THEN <<"-">> ELSE <<>>)
    \o <<Head(natToString(n))>>
    \o (IF f > 0 THEN <<".">> \o Tail(natToString(n)) ELSE <<>>)
    \o <<"e", IF e < 0 THEN "-" ELSE "+">>
    \o natToString(Abs(e))

\* rounding up to 10^(f+1) carries into the exponent
normalized(negative, n, e, f) ==
  IF n = Pow10(f + 1) THEN exponentialText(negative, Pow10(f), e + 1, f)
  ELSE exponentialText(negative, n, e, f)

\* x.toExponential(f) for a finite x other than 0
toExponential(x, f) ==
  normalized(x.n < 0, significand(Abs(x.n), x.d, exponent10(Abs(x.n), x.d), f),
             exponent10(Abs(x.n), x.d), f)

\* `Math.abs(num) < 0.0001 && num !== 0`; the doubles compare as the numbers
\* they stand for, 0.0001 not being within rounding of any of them
verySmall(num) == lessThan(abs(num), Num(1, 10000)) /\ num # Zero

\* Math.round(num * 10000) / 10000: the quotient m / 10000 stands for the
\* double nearest to it
roundTo4(num) ==
  IF num.k # "num" \/ num.n = 0 THEN num
  ELSE dividedBy(mathRound(num.n < 0,
                           timesDouble(toDouble(Abs(num.n), num.d), 10000)),
                 Num(10000, 1))

\* formatNumber(num)
formatNumber(num) ==
  IF num.t # "number" THEN Return(toString(num))
  ELSE IF verySmall(num.v) THEN Return(Str(toExponential(num.v, 4)))
  ELSE Return(Number(roundTo4(num.v)))

-----------------------------------------------------------------------------
(* The page *)

invalid == <<"i", "n", "v", "a", "l", "i", "d">>
warning == <<"w", "a", "r", "n", "i", "n", "g">>
valid == <<"v", "a", "l", "i", "d">>

\* the six status classes, by status
StatusClassesOf(st) ==
  IF st = Str(invalid) THEN {"border-red-500", "bg-red-50"}
  ELSE IF st = Str(warning) THEN {"border-yellow-500", "bg-yellow-50"}
  ELSE IF st = Str(valid) THEN {"border-green-500", "bg-green-50"}
  ELSE {}

StatusClasses ==
  {"border-red-500", "border-yellow-500", "border-green-500",
   "bg-red-50", "bg-yellow-50", "bg-green-50"}

\* mutant: the status classes are not removed first
removeStatusClasses_kept(classes) == classes

\* inputElement.classList.remove(...the six status classes)
removeStatusClasses(classes) == classes \ StatusClasses

\* setInputFieldStatus(inputElement, status), on the class list of the element
setInputFieldStatus(classes, st) ==
  removeStatusClasses(classes) \cup StatusClassesOf(st)

\* the content of a container: nothing, validation messages, the success
\* message with the formatted result, an error message, or a preview
Content(kind, errors, warnings, result) ==
  [kind |-> kind, errors |-> errors, warnings |-> warnings, result |-> result]

NoContent == Content("empty", <<>>, <<>>, Undefined)

\* createValidationMessageHTML(errors, warnings): a block of the errors and
\* a block of the warnings, '' when there are neither
createValidationMessageHTML(errors, warnings) ==
  IF errors = <<>> /\ warnings = <<>> THEN NoContent
  ELSE Content("validation", errors, warnings, Undefined)

\* the page as loaded: no status class, empty containers, the submit button
\* enabled and labelled 'Calculate', no request posted, and the listeners of
\* setupCalculationForm registered
PageLoaded ==
  /\ classList = {}
  /\ innerHTML = [validationMessages |-> NoContent, errorMessages |-> NoContent,
                  messages |-> NoContent, preview |-> NoContent]
  /\ className = ""
  /\ submitBtn = [disabled |-> FALSE, textContent |-> "Calculate"]
  /\ pc = <<>>
  /\ posted = NullData
  /\ sent = 0
  /\ submitListener = "setupCalculationForm"

\* `const x = e`: the value of e, computed once (e is given as the set {e})
const(e) == CHOOSE x \in e : TRUE

\* the calculation preview of updatePreview, for the result of calculateResult
calculationPreview(type, numbers, result) ==
  Content("preview", <<>>, <<>>,
          [t |-> "preview",
           numbers |-> numbers,
           operator |-> getOperatorSymbol(type).value,
           result |-> formatNumber(result).value])

\* the HTML updatePreview writes, for the result of parseInputNumbers
previewOf(type, parseResult) ==
  IF parseResult.isValid /\ Len(parseResult.numbers) >= 2
  THEN const({ calculationPreview(type, parseResult.numbers, result) :
                 result \in {calculateResult(type, Array(parseResult.numbers)).value} })
  ELSE Content("hint", <<>>, <<>>, Undefined)

\* the preview updatePreview writes for the two field values
updatePreview(type, value) ==
  const({ previewOf(type, parseResult) :
            parseResult \in {parseInputNumbers(value).value} })

\* `✓ Calculation created! Result: ${formatNumber(result.result)}`
successMessage(result) ==
  Content("success", <<>>, <<>>, formatNumber(result).value)

\* `✗ Error: ${error.message}`
errorMessage(message) == Content("error", <<>>, <<>>, message)

\* mutant: the label changes but the button stays enabled
showLoadingState_labelOnly(button) ==
  [button EXCEPT !.textContent = "Calculating..."]

\* the block `// Show loading state`
showLoadingState(button) ==
  [disabled |-> TRUE, textContent |-> "Calculating..."]

\* the block `// Restore button`
restoreButton(button) == [disabled |-> FALSE, textContent |-> "Calculate"]

\* an invocation of the submit listener suspended at an await: the promise it
\* awaits (of fetch or of response.json()), how the promise stands, the
\* status of the response once fetch is fulfilled, and the value the promise
\* settled with (the parsed body's result property, or the error's message)
Awaiting(at, state, statusCode, value) ==
  [at |-> at, state |-> state, status |-> statusCode, value |-> value]

\* the sequence without its i-th element
without(seq, i) == SubSeq(seq, 1, i - 1) \o SubSeq(seq, i + 1, Len(seq))

\* the suspended invocations once the i-th has resumed: it awaits
\* response.json() when fetch was fulfilled, and has run to its end otherwise
resumed(awaiting, i) ==
  IF awaiting[i].at = "fetch" /\ awaiting[i].state = "fulfilled"
  THEN [awaiting EXCEPT ![i] = Awaiting("json", "pending", awaiting[i].status, Undefined)]
  ELSE without(awaiting, i)

\* mutant: a validation failure is shown but the request is posted all the same
blocksSubmission_never(validation) == FALSE

\* `if (!validation.isValid) { ... return; }`
blocksSubmission(validation) == ~validation.isValid

\* the value a field is reset to; the markup is not part of the sources, and
\* a field with no default value resets to the empty string
DefaultValue == Str(<<>>)

\* the status the input listener of setupRealtimeValidation determines
statusOf(value, validationResult) ==
  IF trim(value) = <<>> THEN Null
  ELSE IF ~validationResult.isValid THEN Str(invalid)
  ELSE IF Len(validationResult.warnings) > 0 THEN Str(warning)
  ELSE Str(valid)

-----------------------------------------------------------------------------
(* Inputs *)

\* the largest number of comma-separated segments in an operand string
MaxParts == 3

\* the segments an operand string is made of
Tokens ==
  { <<>>, <<" ">>, <<"5">>, <<"0">>, <<"-", "0", ".", "5">>,
    <<"a">>, <<"5", "a">>, <<"1", "e", "1">>, InfinityLiteral }

OperandStrings ==
  { join(ps, <<",">>) : ps \in UNION { [1..n -> Tokens] : n \in 1..MaxParts } }

InputsStrings == {Null, Undefined} \cup { Str(s) : s \in OperandStrings }

OperationTypes ==
  { Null, Undefined, Str(<<>>),
    Str(addition), Str(subtraction), Str(multiplication), Str(division),
    Str(<<"A", "D", "D", "I", "T", "I", "O", "N">>),
    Str(<<"D", "i", "v", "i", "s", "i", "o", "n">>),
    Str(<<"m", "o", "d", "u", "l", "o">>) }

-----------------------------------------------------------------------------
(* The state machine: the arguments, and the call made on them with its     *)
(* completion.  The functions keep no state, so a behaviour is one call on  *)
(* the values chosen initially.  Spec is the validators on the two raw      *)
(* field values; the arguments they do not read are held fixed.             *)

Init ==
  /\ operationType \in OperationTypes
  /\ inputsString \in InputsStrings
  /\ inputsArray = Undefined
  /\ number = Number(Zero)
  /\ called = "none"
  /\ completion = Return(Undefined)
  /\ status = Null
  /\ PageLoaded

CallIsValidOperationType ==
  /\ called = "none"
  /\ called' = "isValidOperationType"
  /\ completion' = isValidOperationType(operationType)
  /\ UNCHANGED <<args, page>>

CallParseInputNumbers ==
  /\ called = "none"
  /\ called' = "parseInputNumbers"
  /\ completion' = parseInputNumbers(inputsString)
  /\ UNCHANGED <<args, page>>

CallValidateCalculationInputs ==
  /\ called = "none"
  /\ called' = "validateCalculationInputs"
  /\ completion' = validateCalculationInputs(operationType, inputsString)
  /\ UNCHANGED <<args, page>>

Next ==
  \/ CallIsValidOperationType
  \/ CallParseInputNumbers
  \/ CallValidateCalculationInputs

Spec == Init /\ [][Next]_vars

\* the values an input element can hold: strings
FieldValues == { Str(s) : s \in OperandStrings }

\* real-time validation of the operands field; the operation type is not read
InitField ==
  /\ operationType = Undefined
  /\ inputsString \in FieldValues
  /\ inputsArray = Undefined
  /\ number = Number(Zero)
  /\ called = "none"
  /\ completion = Return(Undefined)
  /\ status = Null
  /\ PageLoaded

CallValidateInputField ==
  /\ called = "none"
  /\ called' = "validateInputField"
  /\ completion' = validateInputField(inputsString)
  /\ UNCHANGED <<args, page>>

NextField == CallValidateInputField

SpecField == InitField /\ [][NextField]_vars

\* the largest operand array
MaxOperands == 3

\* operand values: zero, integers and a negative fraction
OperandValues == { Zero, Num(5, 1), Num(2, 1), Num(-1, 2) }

\* no array, and every array of up to MaxOperands operand values
OperandArrays ==
  {Null, Undefined} \cup
  UNION { { Array(xs) : xs \in [1..n -> OperandValues] } : n \in 0..MaxOperands }

\* the operation names of OperationTypes, and the name of an inherited property
OperatorNames == OperationTypes \cup { Str(constructor) }

\* the evaluator and the operator symbol, as the live preview calls them
InitEval ==
  /\ operationType \in OperatorNames
  /\ inputsString = Undefined
  /\ inputsArray \in OperandArrays
  /\ number = Number(Zero)
  /\ called = "none"
  /\ completion = Return(Undefined)
  /\ status = Null
  /\ PageLoaded

CallCalculateResult ==
  /\ called = "none"
  /\ called' = "calculateResult"
  /\ completion' = calculateResult(operationType, inputsArray)
  /\ UNCHANGED <<args, page>>

CallGetOperatorSymbol ==
  /\ called = "none"
  /\ called' = "getOperatorSymbol"
  /\ completion' = getOperatorSymbol(operationType)
  /\ UNCHANGED <<args, page>>

NextEval ==
  \/ CallCalculateResult
  \/ CallGetOperatorSymbol

SpecEval == InitEval /\ [][NextEval]_vars

\* the largest numerator and the most decimal places of the decimal numbers
MaxMantissa == 15
MaxDecimals == 6

\* the decimal numbers m / 10^k and their negatives
Decimals ==
  { Num(s * m, Pow10(k)) : m \in 0..MaxMantissa, k \in 0..MaxDecimals, s \in {-1, 1} }

\* the numbers of the tests, ties of the rounding (1/32), numbers that are
\* not decimal fractions, and the numbers that are not finite
OtherNumbers ==
  { Num(42, 1), Num(314159265, 100000000), Num(1, 100000),
    Num(1, 32), Num(-1, 32), Num(1, 15000), Num(-1, 12000), Num(20, 200001),
    Num(1, 3), PosInfinity, NegInfinity, NaN }

\* what the live preview passes to formatNumber: a number, an error string
\* or null
Formattable ==
  { Number(x) : x \in Decimals \cup OtherNumbers }
    \cup { Null, Str(CannotDivideByZero), Str(UnknownOperation) }

InitFormat ==
  /\ operationType = Undefined
  /\ inputsString = Undefined
  /\ inputsArray = Undefined
  /\ number \in Formattable
  /\ called = "none"
  /\ completion = Return(Undefined)
  /\ status = Null
  /\ PageLoaded

CallFormatNumber ==
  /\ called = "none"
  /\ called' = "formatNumber"
  /\ completion' = formatNumber(number)
  /\ UNCHANGED <<args, page>>

NextFormat == CallFormatNumber

SpecFormat == InitFormat /\ [][NextFormat]_vars

\* the statuses setInputFieldStatus is called with: the three it knows, none
\* (null, undefined) and another value
Statuses ==
  { Str(invalid), Str(warning), Str(valid), Null, Undefined,
    Str(<<"e", "r", "r", "o", "r">>) }

\* a class of the element that is not a status class
OtherClasses == {"form-input"}

\* setInputFieldStatus called again and again on an element whose classes
\* are any of the status classes and others
InitStatus ==
  /\ operationType = Undefined
  /\ inputsString = Undefined
  /\ inputsArray = Undefined
  /\ number = Number(Zero)
  /\ status = Null
  /\ called = "none"
  /\ completion = Return(Undefined)
  /\ classList \in SUBSET (StatusClasses \cup OtherClasses)
  /\ innerHTML = [validationMessages |-> NoContent, errorMessages |-> NoContent,
                  messages |-> NoContent, preview |-> NoContent]
  /\ className = ""
  /\ submitBtn = [disabled |-> FALSE, textContent |-> "Calculate"]
  /\ pc = <<>>
  /\ posted = NullData
  /\ sent = 0
  /\ submitListener = "setupCalculationForm"

CallSetInputFieldStatus ==
  /\ \E st \in Statuses :
       /\ status' = st
       /\ classList' = setInputFieldStatus(classList, st)
  /\ called' = "setInputFieldStatus"
  /\ completion' = Return(Undefined)
  /\ UNCHANGED <<operationType, inputsString, inputsArray, number>>
  /\ UNCHANGED <<innerHTML, className, submitBtn, pc, posted, sent, submitListener>>

NextStatus == CallSetInputFieldStatus

SpecStatus == InitStatus /\ [][NextStatus]_vars

\* the input listener of setupRealtimeValidation, run on the value typed into
\* an element that carries the classes of an earlier status
InitRealtime ==
  /\ operationType = Undefined
  /\ inputsString \in FieldValues
  /\ inputsArray = Undefined
  /\ number = Number(Zero)
  /\ status = Null
  /\ called = "none"
  /\ completion = Return(Undefined)
  /\ classList \in { StatusClassesOf(st) : st \in Statuses }
  /\ innerHTML = [validationMessages |-> NoContent, errorMessages |-> NoContent,
                  messages |-> NoContent, preview |-> NoContent]
  /\ className = ""
  /\ submitBtn = [disabled |-> FALSE, textContent |-> "Calculate"]
  /\ pc = <<>>
  /\ posted = NullData
  /\ sent = 0
  /\ submitListener = "setupCalculationForm"

\* what the listener does with the validation result
showFieldStatus(validationResult) ==
  /\ status' = statusOf(inputsString.v, validationResult)
  /\ classList' = setInputFieldStatus(classList,
                                      statusOf(inputsString.v, validationResult))
  /\ innerHTML' =
       [innerHTML EXCEPT !.validationMessages =
          createValidationMessageHTML(validationResult.errors,
                                      validationResult.warnings)]

OnInput ==
  /\ called = "none"
  /\ called' = "input"
  /\ completion' = Return(Undefined)
  /\ showFieldStatus(validateInputField(inputsString).value)
  /\ UNCHANGED <<operationType, inputsString, inputsArray, number>>
  /\ UNCHANGED <<className, submitBtn, pc, posted, sent, submitListener>>

NextRealtime == OnInput

SpecRealtime == InitRealtime /\ [][NextRealtime]_vars

\* the validator followed by the evaluator on the data it stored, as a caller
\* computing the result of a validated calculation runs them
ValidateFields ==
  /\ called = "none"
  /\ called' = "validateCalculationInputs"
  /\ completion' = validateCalculationInputs(operationType, inputsString)
  /\ UNCHANGED <<args, page>>

\* calculateResult(data.type, data.inputs) on the data of a valid result
CalculateOnData ==
  /\ called = "validateCalculationInputs"
  /\ completion.type = "normal"
  /\ completion.value.isValid
  /\ called' = "calculateResult"
  /\ operationType' = Str(completion.value.data.type)
  /\ inputsArray' = Array(completion.value.data.inputs)
  /\ completion' = calculateResult(operationType', inputsArray')
  /\ UNCHANGED <<inputsString, number, status, page>>

NextAgree ==
  \/ ValidateFields
  \/ CalculateOnData

SpecAgree == Init /\ [][NextAgree]_vars

\* the largest number of requests posted in a behaviour
MaxSubmits == 2

\* the options of the operation select: the placeholder and two operations
FormTypes == { Str(<<>>), Str(addition), Str(division) }

\* what the user types into the operands field: a list of two numbers, and
\* two numbers with an invalid segment between them
FormInputs == { Str(<<"5", ",", "2">>), Str(<<"5", ",", "a", ",", "2">>) }

\* the result property of the body of a 201 response
ServerResults == { Number(Num(5, 2)) }

\* the statuses the API answers with
ResponseStatuses == { 201, 400 }

\* the message of the TypeError fetch rejects with, and of the SyntaxError
\* response.json() rejects with
FailedToFetch == Msg("Failed to fetch")
UnexpectedToken == Msg("Unexpected token")

\* the calculation form with empty fields, and one of the two submit
\* listeners of the examples registered on it
InitForm ==
  /\ operationType = DefaultValue
  /\ inputsString = DefaultValue
  /\ inputsArray = Undefined
  /\ number = Number(Zero)
  /\ status = Null
  /\ called = "none"
  /\ completion = Return(Undefined)
  /\ classList = {}
  /\ innerHTML = [validationMessages |-> NoContent, errorMessages |-> NoContent,
                  messages |-> NoContent, preview |-> NoContent]
  /\ className = ""
  /\ submitBtn = [disabled |-> FALSE, textContent |-> "Calculate"]
  /\ pc = <<>>
  /\ posted = NullData
  /\ sent = 0
  /\ submitListener \in {"handleFormSubmit", "setupCalculationForm"}

\* the user chooses an operation; setupCalculationForm registered updatePreview
\* for the change event
ChangeType ==
  /\ \E type \in FormTypes :
       /\ operationType' = type
       /\ innerHTML' =
            IF submitListener = "setupCalculationForm"
            THEN [innerHTML EXCEPT !.preview = updatePreview(type, inputsString)]
            ELSE innerHTML
  /\ called' = "change"
  /\ completion' = Return(Undefined)
  /\ UNCHANGED <<inputsString, inputsArray, number, status>>
  /\ UNCHANGED <<classList, className, submitBtn, pc, posted, sent, submitListener>>

\* the user types into the operands field; setupCalculationForm registered
\* the listener of setupRealtimeValidation and updatePreview for the input event
InputOperands ==
  /\ \E value \in FormInputs :
       /\ inputsString' = value
       /\ IF submitListener = "setupCalculationForm"
          THEN \E validationResult \in {validateInputField(value).value} :
                   /\ status' = statusOf(value.v, validationResult)
                   /\ classList' = setInputFieldStatus(classList, status')
                   /\ innerHTML' =
                        [innerHTML EXCEPT
                           !.validationMessages =
                              createValidationMessageHTML(validationResult.errors,
                                                          validationResult.warnings),
                           !.preview = updatePreview(operationType, value)]
          ELSE UNCHANGED <<status, classList, innerHTML>>
  /\ called' = "input"
  /\ completion' = Return(Undefined)
  /\ UNCHANGED <<operationType, inputsArray, number>>
  /\ UNCHANGED <<className, submitBtn, pc, posted, sent, submitListener>>

\* handleFormSubmit(event); the promise chain of its fetch writes to the
\* console only
HandleFormSubmit ==
  /\ submitListener = "handleFormSubmit"
  /\ ~submitBtn.disabled
  /\ \E validationResult \in
          {validateCalculationInputs(operationType, inputsString).value} :
         IF blocksSubmission(validationResult)
         THEN /\ status' = Str(invalid)
              /\ classList' = setInputFieldStatus(classList, Str(invalid))
              /\ innerHTML' =
                   [innerHTML EXCEPT !.errorMessages =
                      createValidationMessageHTML(validationResult.errors,
                                                  validationResult.warnings)]
              /\ UNCHANGED <<posted, sent>>
         ELSE /\ sent < MaxSubmits
              /\ posted' = validationResult.data
              /\ sent' = sent + 1
              /\ UNCHANGED <<status, classList, innerHTML>>
  /\ called' = "handleFormSubmit"
  /\ completion' = Return(Undefined)
  /\ UNCHANGED <<operationType, inputsString, inputsArray, number>>
  /\ UNCHANGED <<className, submitBtn, pc, submitListener>>

\* the submit listener of setupCalculationForm, up to its first await.  The
\* submit event comes from the submit button, which the browser does not
\* activate (nor use for implicit submission) while it is disabled.
Submit ==
  /\ submitListener = "setupCalculationForm"
  /\ ~submitBtn.disabled
  /\ \E validation \in
          {validateCalculationInputs(operationType, inputsString).value} :
         IF blocksSubmission(validation)
         THEN /\ innerHTML' =
                   [innerHTML EXCEPT !.messages =
                      createValidationMessageHTML(validation.errors,
                                                  validation.warnings)]
              /\ className' = "error-messages"
              /\ UNCHANGED <<submitBtn, pc, posted, sent>>
         ELSE /\ sent < MaxSubmits
              /\ submitBtn' = showLoadingState(submitBtn)
              /\ posted' = validation.data
              /\ sent' = sent + 1
              /\ pc' = Append(pc, Awaiting("fetch", "pending", 0, Undefined))
              /\ UNCHANGED <<innerHTML, className>>
  /\ called' = "submit"
  /\ completion' = Return(Undefined)
  /\ UNCHANGED <<args, classList, submitListener>>

\* the promise of fetch settles: fulfilled with a response of any status, or
\* rejected when the request could not be made
FetchSettles ==
  /\ \E i \in DOMAIN pc :
       /\ pc[i].at = "fetch" /\ pc[i].state = "pending"
       /\ \/ \E code \in ResponseStatuses :
               pc' = [pc EXCEPT ![i] = Awaiting("fetch", "fulfilled", code, Undefined)]
          \/ pc' = [pc EXCEPT ![i] = Awaiting("fetch", "rejected", 0, FailedToFetch)]
  /\ called' = "fetch"
  /\ completion' = Return(Undefined)
  /\ UNCHANGED <<args, classList, innerHTML, className, submitBtn, posted, sent,
                 submitListener>>

\* the promise of response.json() settles: fulfilled with the parsed body (a
\* calculation with its result for 201, an error body without a result
\* otherwise), or rejected when the body is not JSON
JsonSettles ==
  /\ \E i \in DOMAIN pc :
       /\ pc[i].at = "json" /\ pc[i].state = "pending"
       /\ \/ \E result \in IF pc[i].status = 201 THEN ServerResults ELSE {Undefined} :
               pc' = [pc EXCEPT ![i] = Awaiting("json", "fulfilled", pc[i].status, result)]
          \/ pc' = [pc EXCEPT ![i] =
                      Awaiting("json", "rejected", pc[i].status, UnexpectedToken)]
  /\ called' = "json"
  /\ completion' = Return(Undefined)
  /\ UNCHANGED <<args, classList, innerHTML, className, submitBtn, posted, sent,
                 submitListener>>

\* the catch block followed by the finally block
catchAndRestore(message) ==
  /\ innerHTML' = [innerHTML EXCEPT !.messages = errorMessage(message)]
  /\ className' = "error-messages"
  /\ submitBtn' = restoreButton(submitBtn)
  /\ UNCHANGED <<args>>

\* the listener resumes after `await fetch(...)`: it calls response.json()
\* and awaits it, or runs the catch and finally blocks
ResumeAfterFetch ==
  /\ \E i \in DOMAIN pc :
       /\ pc[i].at = "fetch" /\ pc[i].state # "pending"
       /\ pc' = resumed(pc, i)
       /\ IF pc[i].state = "fulfilled"
          THEN UNCHANGED <<args, innerHTML, className, submitBtn>>
          ELSE catchAndRestore(pc[i].value)
  /\ called' = "resumeAfterFetch"
  /\ completion' = Return(Undefined)
  /\ UNCHANGED <<classList, posted, sent, submitListener>>

\* the listener resumes after `await response.json()`: the success message,
\* form.reset() and the emptied preview, or the catch block; then the finally
\* block
ResumeAfterJson ==
  /\ \E i \in DOMAIN pc :
       /\ pc[i].at = "json" /\ pc[i].state # "pending"
       /\ pc' = resumed(pc, i)
       /\ IF pc[i].state = "fulfilled"
          THEN /\ innerHTML' = [innerHTML EXCEPT !.messages = successMessage(pc[i].value),
                                                 !.preview = NoContent]
               /\ className' = "success-messages"
               /\ operationType' = DefaultValue
               /\ inputsString' = DefaultValue
               /\ submitBtn' = restoreButton(submitBtn)
               /\ UNCHANGED <<inputsArray, number, status>>
          ELSE catchAndRestore(pc[i].value)
  /\ called' = "resumeAfterJson"
  /\ completion' = Return(Undefined)
  /\ UNCHANGED <<classList, posted, sent, submitListener>>

NextForm ==
  \/ ChangeType
  \/ InputOperands
  \/ HandleFormSubmit
  \/ Submit
  \/ FetchSettles
  \/ JsonSettles
  \/ ResumeAfterFetch
  \/ ResumeAfterJson

SpecForm == InitForm /\ [][NextForm]_vars

\* a step of ResumeAfterFetch or ResumeAfterJson, by what it does to the
\* suspended invocations
Resume ==
  \E i \in DOMAIN pc : pc[i].state # "pending" /\ pc' = resumed(pc, i)

\* the event loop runs the continuation of an await once its promise settled
SpecFormFair == SpecForm /\ WF_pc(Resume)

-----------------------------------------------------------------------------
(* What the claims speak of, stated on the raw field values *)

ValidateCalled == called = "validateCalculationInputs"
ParseCalled == called = "parseInputNumbers"
Returned == completion.type = "normal"
res == completion.value

\* the operation type is one of the four names, in any letter case
IsOperationName(op) ==
  /\ op.t = "string"
  /\ [i \in DOMAIN op.v |-> LowerChar(op.v[i])]
       \in {addition, subtraction, multiplication, division}

LowerCased(op) == [i \in DOMAIN op.v |-> LowerChar(op.v[i])]

\* the operand string holds nothing but commas and white space, or is absent
NoSegmentRemains ==
  \/ inputsString.t # "string"
  \/ \A i \in DOMAIN inputsString.v : inputsString.v[i] \in WhiteSpace \cup {","}

\* the non-empty trimmed segments of the operand string, in order
Segments ==
  IF inputsString.t = "string"
  THEN LET segs == split(inputsString.v, ",")
       IN  SelectSeq([i \in DOMAIN segs |-> trim(segs[i])], LAMBDA p : p # <<>>)
  ELSE <<>>

NumericSegments == SelectSeq(Segments, isValidNumber)
InvalidSegments == SelectSeq(Segments, LAMBDA p : ~isValidNumber(p))

\* the numbers the operand string holds, in order
Operands ==
  LET numeric == NumericSegments
  IN  [i \in DOMAIN numeric |-> parseFloat(numeric[i])]

\* the operand string is a list of numbers: every segment is numeric
IsNumberList == Segments # <<>> /\ InvalidSegments = <<>>

HasZeroDivisor ==
  LET operands == Operands
  IN  \E i \in 2..Len(operands) : operands[i] = Zero

-----------------------------------------------------------------------------
\* C1: with a valid operation type and an operand string mixing invalid
\* tokens with at least 2 valid ones, validateCalculationInputs returns
\* isValid = true, a non-empty warnings list, an empty errors list and
\* data.inputs equal to the valid numbers only.
C1_MixedInputIsValidWithWarning ==
  (ValidateCalled /\ IsOperationName(operationType)
     /\ ~(LowerCased(operationType) = division /\ HasZeroDivisor)
     /\ InvalidSegments # <<>> /\ Len(NumericSegments) >= 2)
  => /\ Returned
     /\ res.isValid
     /\ res.warnings # <<>>
     /\ res.errors = <<>>
     /\ res.data.inputs = Operands

\* C2: when every segment of the operand string parses to a number, there
\* are at least 2, and the operation type is a valid non-division one,
\* validateCalculationInputs returns isValid = true and data.inputs equal to
\* the parsed numbers in their original order.
C2_NumberListIsValid ==
  (ValidateCalled /\ IsOperationName(operationType)
     /\ LowerCased(operationType) # division
     /\ IsNumberList /\ Len(Operands) >= 2)
  => /\ Returned
     /\ res.isValid
     /\ res.data.inputs = Operands

C2_Witness ==
  /\ ValidateCalled /\ IsOperationName(operationType)
  /\ LowerCased(operationType) # division
  /\ IsNumberList /\ Len(Operands) = 3
  /\ Operands[1] # Operands[2] /\ Operands[2] # Operands[3]
  /\ Returned /\ res.isValid

\* C3: for operation division and a list of at least 2 numbers,
\* validateCalculationInputs fails with 'Cannot divide by zero' if and only
\* if some operand at index > 0 equals 0; a zero at index 0 alone does not
\* make it fail.
C3_DivisionByZeroIffZeroDivisor ==
  (ValidateCalled /\ operationType.t = "string"
     /\ LowerCased(operationType) = division
     /\ IsNumberList /\ Len(Operands) >= 2)
  => /\ Returned
     /\ IF HasZeroDivisor
        THEN ~res.isValid /\ includes(res.errors, DIVISION_BY_ZERO)
        ELSE res.isValid /\ ~includes(res.errors, DIVISION_BY_ZERO)

C3_Witness ==
  /\ ValidateCalled /\ operationType.t = "string"
  /\ LowerCased(operationType) = division
  /\ IsNumberList /\ Len(Operands) >= 2
  /\ Operands[1] = Zero /\ ~HasZeroDivisor
  /\ Returned /\ res.isValid

\* C4: when the operand string yields exactly one number or none,
\* validateCalculationInputs returns isValid = false, at least one error and
\* data = null, whatever the operation type (valid, invalid or missing).
C4_FewerThanTwoIsInvalid ==
  (ValidateCalled /\ Len(Operands) <= 1)
  => /\ Returned
     /\ ~res.isValid
     /\ Len(res.errors) >= 1
     /\ res.data = NullData

C4_Witness ==
  /\ ValidateCalled /\ IsOperationName(operationType)
  /\ IsNumberList /\ Len(Operands) = 1
  /\ Returned /\ ~res.isValid /\ res.data = NullData

OperationTypeErrors ==
  SelectSeq(res.errors,
            LAMBDA e : e \in {OPERATION_REQUIRED, INVALID_OPERATION})

C6_ValidIffNoErrorsIffData ==
  ValidateCalled
  => /\ Returned
     /\ res.isValid <=> (res.errors = <<>>)
     /\ (res.data # NullData) <=> res.isValid
     /\ res.data # NullData
          => res.data = Data(LowerCased(operationType), Operands)

C6_Witness ==
  /\ ValidateCalled /\ Returned /\ res.isValid
  /\ res.data # NullData
  /\ res.data.type # operationType.v
  /\ Len(res.data.inputs) >= 2

\* C7: operation-type matching is case-insensitive: validateCalculationInputs
\* gives the same isValid, errors, warnings and data for an operation type as
\* for its lowercase form, data.type is always the lowercase name, and
\* isValidOperationType is true for every case variant of the four names.
C7_CaseInsensitive ==
  /\ (ValidateCalled /\ operationType.t = "string")
       => /\ completion = validateCalculationInputs(
                            Str(LowerCased(operationType)), inputsString)
          /\ Returned
          /\ res.data # NullData
               => res.data.type \in {addition, subtraction,
                                        multiplication, division}
  /\ (called = "isValidOperationType" /\ IsOperationName(operationType))
       => completion = Return(TRUE)

C7_Witness ==
  /\ ValidateCalled /\ IsOperationName(operationType)
  /\ LowerCased(operationType) # operationType.v
  /\ Returned /\ res.isValid
  /\ res.data.type = LowerCased(operationType)

\* C8: validateCalculationInputs reports exactly one operation-type error
\* when the operation type is unusable ('Operation type is required' when it
\* is null, undefined or empty, 'Please select a valid operation type' when
\* it is a non-empty string that is none of the four names in any case) and
\* no operation-type error otherwise.
C8_OneOperationTypeError ==
  ValidateCalled
  => /\ Returned
     /\ OperationTypeErrors =
          IF Falsy(operationType) THEN <<OPERATION_REQUIRED>>
          ELSE IF ~IsOperationName(operationType) THEN <<INVALID_OPERATION>>
          ELSE <<>>

C8_Witness ==
  /\ ValidateCalled /\ Returned
  /\ operationType = Str(<<>>)
  /\ OperationTypeErrors = <<OPERATION_REQUIRED>>
  /\ Len(res.errors) = 2

\* C9: the validator functions are total: for every operation type and
\* operand input that is a string, the empty string, null or undefined,
\* validateCalculationInputs, parseInputNumbers and isValidOperationType
\* return a structured res and never throw.
C9_NeverThrows ==
  /\ called # "none" => Returned
  /\ called = "isValidOperationType" => res \in BOOLEAN
  /\ ParseCalled
       => /\ res.isValid \in BOOLEAN
          /\ DOMAIN res.numbers = 1..Len(res.numbers)
  /\ ValidateCalled
       => /\ res.isValid \in BOOLEAN
          /\ DOMAIN res.errors = 1..Len(res.errors)
          /\ DOMAIN res.warnings = 1..Len(res.warnings)

C9_Witness ==
  /\ ValidateCalled /\ Returned
  /\ operationType \in {Null, Undefined}
  /\ IsNumberList /\ Len(Operands) >= 2
  /\ res.errors = <<OPERATION_REQUIRED>>

-----------------------------------------------------------------------------
FieldCalled == called = "validateInputField"

\* a plain decimal numeral: optional minus sign, digits, optional point and
\* digits, and nothing else
IsPlainDecimal(seg) ==
  LET body == IF seg # <<>> /\ Head(seg) = "-" THEN Tail(seg) ELSE seg
      rest == afterDigits(body)
  IN  /\ digitPrefixLen(body) >= 1
      /\ \/ rest = <<>>
         \/ /\ Head(rest) = "."
            /\ Len(rest) >= 2
            /\ digitPrefixLen(Tail(rest)) = Len(rest) - 1

\* C11: parseInputNumbers accepts a trimmed segment as numeric only when the
\* whole segment is a plain decimal numeral; a segment in exponential
\* notation ('1e5') or with other characters after a numeric prefix ('5abc')
\* is classified invalid and contributes no number to the result.
C11_OnlyPlainDecimalsAccepted ==
  ParseCalled
  => /\ Returned
     /\ Len(res.numbers) <= Len(SelectSeq(Segments, IsPlainDecimal))

\* C12: the numbers list returned by parseInputNumbers is exactly the
\* subsequence of non-empty trimmed segments classified numeric, in original
\* order, with no invalid segment coerced to 0; with at least one numeric and
\* at least one invalid segment the result carries warning = true and a
\* non-empty numbers list.
C12_NumbersAreTheNumericSegments ==
  ParseCalled
  => /\ Returned
     /\ res.numbers = Operands
     /\ Len(res.numbers) = Len(Segments) - Len(InvalidSegments)
     /\ (NumericSegments # <<>> /\ InvalidSegments # <<>>)
          => res.warning /\ res.numbers # <<>>
     /\ (NumericSegments = <<>> \/ InvalidSegments = <<>>) => ~res.warning

C12_Witness ==
  /\ ParseCalled /\ Returned
  /\ Len(NumericSegments) = 2 /\ Len(InvalidSegments) = 1
  /\ ~isValidNumber(Segments[2])
  /\ res.warning
  /\ res.numbers = <<parseFloat(Segments[1]), parseFloat(Segments[3])>>
  /\ res.numbers[1] # res.numbers[2]

\* C13: validateInputField on a field whose value is empty or white space
\* only returns isValid = true with empty errors and empty warnings.
C13_EmptyFieldIsValid ==
  (FieldCalled /\ \A i \in DOMAIN inputsString.v : inputsString.v[i] \in WhiteSpace)
  => /\ Returned
     /\ res = [isValid |-> TRUE, errors |-> <<>>, warnings |-> <<>>]

C13_Witness ==
  /\ FieldCalled /\ Returned
  /\ inputsString.v # <<>>
  /\ \A i \in DOMAIN inputsString.v : inputsString.v[i] \in WhiteSpace
  /\ res.isValid /\ res.errors = <<>> /\ res.warnings = <<>>

IsBlank == \A i \in DOMAIN inputsString.v : inputsString.v[i] \in WhiteSpace

-----------------------------------------------------------------------------
CalculateCalled == called = "calculateResult"
SymbolCalled == called = "getOperatorSymbol"

\* the operand array holds at least 2 numbers
HasOperands == inputsArray.t = "array" /\ Len(inputsArray.v) >= 2

\* the operands
xs == inputsArray.v

RECURSIVE ProductOf(_, _)
ProductOf(f(_), i) == IF i = 0 THEN 1 ELSE f(i) * ProductOf(f, i - 1)

RECURSIVE SumOf(_, _)
SumOf(f(_), i) == IF i = 0 THEN 0 ELSE f(i) + SumOf(f, i - 1)

\* the product of the operands' denominators, and of their numerators
Denominators == LET d(i) == xs[i].d IN ProductOf(d, Len(xs))
Numerators == LET n(i) == xs[i].n IN ProductOf(n, Len(xs))

\* operand i over the common denominator Denominators
Scaled(i) == xs[i].n * (Denominators \div xs[i].d)

\* the sum of the operands, over Denominators
ReferenceSum == SumOf(Scaled, Len(xs))

\* the fraction p/q (q # 0) is the finite number r
IsFraction(r, p, q) == r.k = "num" /\ r.n * q = p * r.d

\* C15: for addition, subtraction and multiplication and every list of at
\* least 2 numbers, calculateResult is the reference left fold: the sum of
\* all operands, the product of all operands, and operand[0] minus each
\* subsequent operand (operand[0] used once, never subtracted from itself).
C15_FoldsMatchReference ==
  (CalculateCalled /\ HasOperands /\ IsOperationName(operationType)
     /\ LowerCased(operationType) # division)
  => /\ Returned
     /\ res.t = "number"
     /\ CASE LowerCased(operationType) = addition ->
               IsFraction(res.v, ReferenceSum, Denominators)
          [] LowerCased(operationType) = subtraction ->
               IsFraction(res.v, 2 * Scaled(1) - ReferenceSum, Denominators)
          [] LowerCased(operationType) = multiplication ->
               IsFraction(res.v, Numerators, Denominators)

C15_Witness ==
  /\ CalculateCalled /\ Returned
  /\ operationType = Str(subtraction)
  /\ inputsArray = Array(<<Num(5, 1), Num(-1, 2), Num(2, 1)>>)
  /\ res = Number(Num(7, 2))

\* some operand after the first is 0
ZeroAfterFirst == \E i \in 2..Len(xs) : xs[i].k = "num" /\ xs[i].n = 0

\* the product of the numerators of the operands after the first, and of
\* their denominators
DivisorNumerators ==
  LET n(i) == IF i = 1 THEN 1 ELSE xs[i].n IN ProductOf(n, Len(xs))
DivisorDenominators ==
  LET d(i) == IF i = 1 THEN 1 ELSE xs[i].d IN ProductOf(d, Len(xs))

\* C16: for division and every list of at least 2 numbers, calculateResult
\* returns the string 'Cannot divide by zero' (a returned value, not a fault,
\* Infinity or NaN) if and only if some operand at index > 0 equals 0;
\* otherwise it returns operand[0] divided by each subsequent operand in order.
C16_DivisionByZeroIsAnErrorString ==
  (CalculateCalled /\ HasOperands /\ IsOperationName(operationType)
     /\ LowerCased(operationType) = division)
  => /\ Returned
     /\ (res = Str(CannotDivideByZero)) <=> ZeroAfterFirst
     /\ ~ZeroAfterFirst =>
          /\ res.t = "number"
          /\ IsFraction(res.v, xs[1].n * DivisorDenominators,
                               xs[1].d * DivisorNumerators)

C16_Witness ==
  /\ CalculateCalled /\ Returned
  /\ operationType = Str(division)
  /\ inputsArray = Array(<<Zero, Num(5, 1), Num(-1, 2)>>)
  /\ res = Number(Zero)

\* C17: calculateResult returns null whenever the operand list is missing or
\* has fewer than 2 elements, for every operation type including unknown
\* ones; with at least 2 operands and an operation type that is missing or
\* not one of the four names (in any letter case) it returns the string
\* 'Unknown operation'.
C17_NullOrUnknownOperation ==
  CalculateCalled
  => /\ Returned
     /\ ~HasOperands => res = Null
     /\ (HasOperands /\ ~IsOperationName(operationType))
          => res = Str(UnknownOperation)
     /\ (HasOperands /\ IsOperationName(operationType))
          => res # Null /\ res # Str(UnknownOperation)

C17_Witness ==
  /\ CalculateCalled /\ Returned
  /\ inputsArray.t = "array" /\ Len(inputsArray.v) = 1
  /\ operationType = Str(addition)
  /\ res = Null

\* C19: getOperatorSymbol maps addition to '+', subtraction to '-',
\* multiplication to the multiplication sign and division to the division
\* sign, for any letter case of the name, and every other value, including
\* null, undefined and the empty string, to '?'.
C19_SymbolOrQuestionMark ==
  SymbolCalled
  => /\ Returned
     /\ res = IF ~IsOperationName(operationType) THEN Str(<<"?">>)
              ELSE CASE LowerCased(operationType) = addition -> Str(<<"+">>)
                     [] LowerCased(operationType) = subtraction -> Str(<<"-">>)
                     [] LowerCased(operationType) = multiplication -> Str(<<"×">>)
                     [] LowerCased(operationType) = division -> Str(<<"÷">>)

-----------------------------------------------------------------------------
FormatCalled == called = "formatNumber"

\* the number passed to formatNumber
x == number.v

\* x is finite, not 0, and less than 0.0001 in absolute value
IsVerySmall == x.k = "num" /\ x.n # 0 /\ Abs(x.n) <= (x.d - 1) \div 10000

\* the text without its minus sign
Unsigned(text) == IF text # <<>> /\ Head(text) = "-" THEN Tail(text) ELSE text

\* the text is d.dddde-k: one digit other than 0, a point, 4 digits, and a
\* negative exponent
IsExponential4(text) ==
  /\ Len(text) >= 9
  /\ IsDigit(text[1]) /\ text[1] # "0"
  /\ text[2] = "."
  /\ \A i \in 3..6 : IsDigit(text[i])
  /\ text[7] = "e" /\ text[8] = "-"
  /\ \A i \in 9..Len(text) : IsDigit(text[i])

\* n / 10^p without the trailing zeros of n
RECURSIVE Shortened(_, _)
Shortened(n, p) ==
  IF n % 10 = 0 /\ p > 0 THEN Shortened(n \div 10, p - 1) ELSE Num(n, Pow10(p))

\* the number an exponential text d.dddde-k stands for
ExponentialValue(text) ==
  Shortened(DigitsValue(<<text[1]>> \o SubSeq(text, 3, 6)),
            DigitsValue(SubSeq(text, 9, Len(text))) + 4)

\* x has at most 5 significant digits: x * 10^p is an integer below 10^5
FiveDigits == \E p \in 0..9 : Pow10(p) % x.d = 0 /\ Abs(x.n) * (Pow10(p) \div x.d) < 100000

\* x * 10000 as the fraction TimesNum / TimesDen
TimesNum == x.n * (10000 \div Gcd(10000, x.d))
TimesDen == x.d \div Gcd(10000, x.d)

\* the multiple of 0.0001 that the finite number r is
Multiple(r) == r.n * (10000 \div r.d)

\* the finite number r is a multiple m of 0.0001, and m is x * 10000 rounded
\* to the nearest integer, a tie going up
IsRoundedHalfUp(r) ==
  /\ r.k = "num"
  /\ 10000 % r.d = 0
  /\ 2 * Multiple(r) * TimesDen <= 2 * TimesNum + TimesDen
  /\ 2 * TimesNum + TimesDen < 2 * (Multiple(r) + 1) * TimesDen

\* the finite number r is a multiple m of 0.0001, and no integer is nearer
\* to x * 10000 than m
IsRoundedToNearest(r) ==
  /\ r.k = "num"
  /\ 10000 % r.d = 0
  /\ 2 * Abs(Multiple(r) * TimesDen - TimesNum) <= TimesDen

\* what formatNumber returns for a number that is very small
ReturnsExponential ==
  /\ Returned
  /\ res.t = "string"
  /\ (Head(res.v) = "-") <=> (x.n < 0)
  /\ IsExponential4(Unsigned(res.v))
  /\ FiveDigits => ExponentialValue(Unsigned(res.v)) = abs(x)

-----------------------------------------------------------------------------
StatusCalled == called = "setInputFieldStatus"

\* C30: after any sequence of setInputFieldStatus calls on an element, the
\* element carries the status classes of at most one status, namely that of
\* the last call (red pair for 'invalid', yellow pair for 'warning', green
\* pair for 'valid'), and none of the six status classes when the last
\* call's status was null or any other value; classes that are not status
\* classes are left unchanged.
C30_ClassesOfLastStatusOnly ==
  /\ [](StatusCalled =>
          classList \cap StatusClasses =
            CASE status = Str(invalid) -> {"border-red-500", "bg-red-50"}
              [] status = Str(warning) -> {"border-yellow-500", "bg-yellow-50"}
              [] status = Str(valid) -> {"border-green-500", "bg-green-50"}
              [] OTHER -> {})
  /\ [][classList' \ StatusClasses = classList \ StatusClasses]_vars

C30_Witness ==
  /\ StatusCalled
  /\ status = Str(warning)
  /\ classList = {"border-yellow-500", "bg-yellow-50", "form-input"}

InputHandled == called = "input"

\* the status classes the element carries are those of the status st
Flagged(st) == classList \cap StatusClasses = StatusClassesOf(st)

\* C24: the real-time field status computed on each input event is 'invalid'
\* only for input that produces errors and 'warning' for input that is usable
\* but produced warnings: an input mixing valid and invalid segments and an
\* input with a single number are both flagged 'warning', never 'invalid',
\* and an empty field gets no status.
C24_MixedAndSingleAreWarnings ==
  InputHandled
  => /\ IsBlank => status = Null /\ Flagged(Null)
     /\ (~IsBlank /\ Operands # <<>> /\ (InvalidSegments # <<>> \/ Len(Operands) = 1))
          => status = Str(warning) /\ Flagged(Str(warning))
     /\ (~IsBlank /\ Operands = <<>>) => status = Str(invalid)
     /\ (IsNumberList /\ Len(Operands) >= 2) => status = Str(valid)

\* C25: validateInputField never reports division by zero: for every field
\* value, including ones with zero divisors such as '100, 0', neither errors
\* nor warnings contains the 'Cannot divide by zero' message.
C25_FieldNeverReportsDivisionByZero ==
  FieldCalled
  => /\ Returned
     /\ ~includes(res.errors, DIVISION_BY_ZERO)
     /\ ~includes(res.warnings, DIVISION_BY_ZERO)
     /\ (IsNumberList /\ Len(Operands) >= 2)
          => res = [isValid |-> TRUE, errors |-> <<>>, warnings |-> <<>>]

C25_Witness ==
  /\ FieldCalled /\ Returned
  /\ IsNumberList /\ Len(Operands) >= 2 /\ HasZeroDivisor
  /\ res.isValid /\ res.errors = <<>> /\ res.warnings = <<>>

CalculatedOnData == called = "calculateResult"

\* C26: the validator and the evaluator agree: whenever
\* validateCalculationInputs returned isValid = true for an operation type
\* and an operand string, calculateResult(data.type, data.inputs) returns a
\* number, never null, 'Cannot divide by zero' or 'Unknown operation'.
C26_EvaluatorAcceptsValidatedData ==
  CalculatedOnData
  => /\ Returned
     /\ res.t = "number"
     /\ res # Null
     /\ res # Str(CannotDivideByZero)
     /\ res # Str(UnknownOperation)
     /\ operationType.v \in {addition, subtraction, multiplication, division}
     /\ inputsArray = Array(Operands)

C26_Witness ==
  /\ CalculatedOnData /\ Returned
  /\ operationType = Str(division)
  /\ Len(inputsArray.v) = 3 /\ inputsArray.v[1] = Zero
  /\ res.t = "number"

OperandErrors ==
  SelectSeq(res.errors,
            LAMBDA e : e \notin {OPERATION_REQUIRED, INVALID_OPERATION})

\* C28: in every result of validateCalculationInputs the errors list has at
\* most 2 entries, any operation-type error comes before any operand error,
\* at most one operand error is present, and the division-by-zero error never
\* appears together with any other error.
C28_ErrorsListShape ==
  ValidateCalled
  => /\ Returned
     /\ Len(res.errors) <= 2
     /\ Len(OperationTypeErrors) <= 1
     /\ Len(OperandErrors) <= 1
     /\ res.errors = OperationTypeErrors \o OperandErrors
     /\ includes(res.errors, DIVISION_BY_ZERO)
          => res.errors = <<DIVISION_BY_ZERO>>

C28_Witness ==
  /\ ValidateCalled /\ Returned
  /\ ~IsOperationName(operationType)
  /\ IsNumberList /\ Len(Operands) >= 2 /\ HasZeroDivisor
  /\ res.errors = <<INVALID_OPERATION>>

\* the field values pass validation: one of the four operation names and a
\* list of at least two numbers, with no zero divisor for a division
FieldsAreValid ==
  /\ IsOperationName(operationType)
  /\ IsNumberList /\ Len(Operands) >= 2
  /\ ~(LowerCased(operationType) = division /\ HasZeroDivisor)

\* C21: in the two submit handlers a POST to /calculations is issued only
\* when the field values read at submit time pass validateCalculationInputs,
\* and its body is exactly the data of that result (the lowercased operation
\* type and the parsed numbers); when validation fails no request is sent and
\* the errors are displayed; nothing but a submit handler posts a request.
C21_PostOnlyValidatedData ==
  /\ [][called' = "submit"
          => IF FieldsAreValid
             THEN /\ sent' = sent + 1
                  /\ posted' = Data(LowerCased(operationType), Operands)
             ELSE /\ sent' = sent /\ posted' = posted /\ pc' = pc
                  /\ innerHTML'.messages.kind = "validation"
                  /\ innerHTML'.messages.errors # <<>>
                  /\ className' = "error-messages"]_vars
  /\ [][called' = "handleFormSubmit"
          => IF FieldsAreValid
             THEN /\ sent' = sent + 1
                  /\ posted' = Data(LowerCased(operationType), Operands)
             ELSE /\ sent' = sent /\ posted' = posted
                  /\ innerHTML'.errorMessages.kind = "validation"
                  /\ innerHTML'.errorMessages.errors # <<>>
                  /\ StatusClassesOf(Str(invalid)) \subseteq classList']_vars
  /\ [][(sent' # sent \/ posted' # posted)
          => called' \in {"submit", "handleFormSubmit"}]_vars

C21_Witness ==
  /\ called = "submit" /\ sent = 2
  /\ posted = Data(division, <<Num(5, 1), Num(2, 1)>>)
  /\ operationType = Str(division)
  /\ innerHTML.messages.kind = "validation"

\* an invocation of the submit listener has posted a request and not finished
InFlight == pc # <<>>

\* the request of an invocation has completed: fetch failed, or the body of
\* the response was read
RequestCompleted ==
  \E i \in DOMAIN pc :
    \/ pc[i].state = "rejected"
    \/ pc[i].at = "json" /\ pc[i].state = "fulfilled"

ButtonRestored == ~submitBtn.disabled /\ submitBtn.textContent = "Calculate"

\* C22: in setupCalculationForm the submit button is disabled for the whole
\* time a request is in flight, so at most one request of the form is
\* outstanding, and once the request has completed, with success or failure,
\* the button is eventually enabled again with the label 'Calculate'.
C22_DisabledWhileInFlight ==
  /\ [](InFlight => submitBtn.disabled /\ submitBtn.textContent = "Calculating...")
  /\ [](Len(pc) <= 1)
  /\ RequestCompleted ~> ButtonRestored

C22_Witness ==
  /\ called = "resumeAfterJson" /\ sent = 2
  /\ pc = <<>> /\ ButtonRestored
  /\ innerHTML.messages.kind = "error"

\* C23: when the API answers a submission with an error status the form
\* shows an error message and keeps the field values; the form is reset and
\* the success message shown only when the calculation was created (201).
C23_ErrorStatusKeepsForm ==
  [][(called' = "resumeAfterJson" /\ Len(pc) = 1)
       => /\ pc[1].status >= 400
               => /\ innerHTML'.messages.kind = "error"
                  /\ operationType' = operationType
                  /\ inputsString' = inputsString
          /\ innerHTML'.messages.kind = "success" => pc[1].status = 201]_vars

====
